---- MODULE Spec2Model ----
(***************************************************************************)
(* The useChat hook (src/src/hooks/useChat.ts) as a state machine.         *)
(*                                                                         *)
(* The hook's React state, the two backend tables it reads and writes,     *)
(* the realtime channels it subscribes to, and every asynchronous call it  *)
(* has in flight.  An asynchronous function is cut at each await: the      *)
(* request is issued, the backend executes it at some later moment, and    *)
(* the continuation runs when the response is delivered.  A state change   *)
(* is followed, in the same step, by the effects React re-runs for it.     *)
(***************************************************************************)
EXTENDS Integers, Sequences, FiniteSets, Bags, TLC

\* ---------------------------------------------------------------- bounds
MaxCalls == 2      \* asynchronous calls in flight at once
MaxCallsRooms == 3 \* the same, where the session is refreshed (SpecRooms)
MaxInbox == 1      \* realtime notifications not yet delivered
MaxInboxDesk == 2  \* the same, where two messages arrive in a row (SpecDesk)
MaxTime  == 1      \* last value of the clock
MaxTimeRooms == 0  \* the same, where no claim reads a time (SpecRooms)
MaxRooms == 3      \* rows of chat_rooms
MaxMsgs  == 2      \* rows of chat_messages

\* ------------------------------------------------------------ the values
\* null / undefined of a record-valued expression (user, selectedChat, data)
Null == [null |-> TRUE]

\* user?.id of an absent user, agent_id of an unassigned room, no row filter
NoId == "null"

\* selectedChat?.id of no selection (room ids are 1, 2, ...)
NoChat == 0

\* the identities useAuth() can supply to this controller
Identities ==
    { [id |-> "c1", role |-> "customer"], [id |-> "a1", role |-> "agent"] }

\* the status column of chat_rooms
Statuses == {"active", "waiting", "closed"}

\* message texts the consumer may pass to sendMessage, as character sequences
Texts == { <<>>, <<" ">>, <<" ", "a">>, <<"a", " ">>, <<"a">> }

VARIABLES
    user,          \* useAuth().user: Null or an identity
    chatRooms,     \* useState<ChatRoom[]>
    selectedChat,  \* useState<ChatRoom | null>
    messages,      \* useState<Message[]>
    loading,       \* useState(true)
    rooms,         \* the backend table chat_rooms
    msgs,          \* the backend table chat_messages
    now,           \* the latest reading of the clock (backend now(), client new Date())
    calls,         \* bag of the asynchronous calls in flight
    msgChannel,    \* the live chat-messages-<id> subscription, or Null
    roomChannel,   \* the live chat-rooms-<id> subscription, or Null
    inbox,         \* realtime notifications sent to the channels, not yet delivered
    toasts,        \* the alerts toast() raised in the latest step
    lastGet,       \* what the latest completed getOrCreateChatRoom() returned
    ev             \* the latest step: which handler ran, and the text it was given

vars == << user, chatRooms, selectedChat, messages, loading, rooms, msgs, now,
           calls, msgChannel, roomChannel, inbox, toasts, lastGet, ev >>

\* ----------------------------------------------------------- pure helpers
UserId(u) == IF u = Null THEN NoId ELSE u.id

ChatId(c) == IF c = Null THEN NoChat ELSE c.id

Range(s) == { s[i] : i \in 1..Len(s) }

\* every arrangement of the finite set S as a sequence
Perms(S) ==
    { p \in [1..Cardinality(S) -> S] : \A i, j \in 1..Cardinality(S) : p[i] = p[j] => i = j }

IsSpace(ch) == ch = " "

RECURSIVE TrimStart(_)
TrimStart(s) ==
    IF s # <<>> /\ IsSpace(Head(s)) THEN TrimStart(Tail(s)) ELSE s

RECURSIVE TrimEnd(_)
TrimEnd(s) ==
    IF s # <<>> /\ IsSpace(s[Len(s)]) THEN TrimEnd(SubSeq(s, 1, Len(s) - 1)) ELSE s

\* String.prototype.trim
Trim(s) == TrimEnd(TrimStart(s))

\* ------------------------------------------------------ the backend's queries
\* fetchChatRooms with the role test lost: the query is never filtered
RoomsFilterUnscoped(u) == NoId

\* fetchChatRooms: .eq('customer_id', user.id) for a customer, no filter otherwise
RoomsFilter(u) == IF u.role = "customer" THEN u.id ELSE NoId

\* the rows of chat_rooms a filter on customer_id lets through
MatchingRooms(filter) == { r \in rooms : filter = NoId \/ r.customer_id = filter }

\* .order('updated_at', { ascending: false }): every order the backend may
\* return the rows in (rows with equal updated_at come in any order)
OrderByUpdatedDesc(S) ==
    { p \in Perms(S) : \A i, j \in 1..Len(p) : i < j => p[i].updated_at >= p[j].updated_at }

\* the query of fetchChatRooms, executed on the table as it is now
SelectChatRooms(filter) == OrderByUpdatedDesc(MatchingRooms(filter))

\* the row -> ChatRoom mapping of fetchChatRooms
TransformRoom(room) ==
    [ id          |-> room.id,
      customer_id |-> room.customer_id,
      agent_id    |-> room.agent_id,
      status      |-> room.status,
      updated_at  |-> room.updated_at ]

transformedData(data) == [ i \in 1..Len(data) |-> TransformRoom(data[i]) ]

\* .eq('chat_room_id', chatRoomId)
MessagesOf(chatRoomId) == { m \in msgs : m.chat_room_id = chatRoomId }

\* the order reversed: { ascending: false }
OrderByCreatedDesc(S) ==
    { p \in Perms(S) : \A i, j \in 1..Len(p) : i < j => p[i].created_at >= p[j].created_at }

\* .order('created_at', { ascending: true })
OrderByCreatedAsc(S) ==
    { p \in Perms(S) : \A i, j \in 1..Len(p) : i < j => p[i].created_at <= p[j].created_at }

\* the query of fetchMessages, executed on the table as it is now
SelectMessages(chatRoomId) == OrderByCreatedAsc(MessagesOf(chatRoomId))

\* .maybeSingle(): the row when there is exactly one, null when there is none,
\* and an error (data null) when the filter matches several rows
MaybeSingle(S) ==
    IF Cardinality(S) = 1 THEN [ data |-> CHOOSE r \in S : TRUE, error |-> FALSE ]
    ELSE [ data |-> Null, error |-> Cardinality(S) > 1 ]

\* the insert with the wrong initial status
NewRoomRowActive(customer_id, t) ==
    [ id          |-> Cardinality(rooms) + 1,
      customer_id |-> customer_id,
      agent_id    |-> NoId,
      status      |-> "active",
      updated_at  |-> t ]

\* .insert({ customer_id, status: 'waiting' }): the row the backend creates
NewRoomRow(customer_id, t) ==
    [ id          |-> Cardinality(rooms) + 1,
      customer_id |-> customer_id,
      agent_id    |-> NoId,
      status      |-> "waiting",
      updated_at  |-> t ]

\* .insert({ chat_room_id, sender_id, message }): the row the backend creates
NewMessageRow(chatRoomId, senderId, message, t) ==
    [ id           |-> Cardinality(msgs) + 1,
      chat_room_id |-> chatRoomId,
      sender_id    |-> senderId,
      message      |-> message,
      created_at   |-> t ]

\* ------------------------------------------------------ realtime delivery
\* the notifications an INSERT of message m sends to the live message channel
MessageNotes(m) ==
    IF msgChannel # Null /\ msgChannel.filter = m.chat_room_id
    THEN << [chan |-> "messages", new |-> m] >> ELSE << >>

\* the notification a change of a chat_rooms row sends to the live room channel
RoomNotes(r) ==
    IF roomChannel # Null /\ (roomChannel.filter = NoId \/ roomChannel.filter = r.customer_id)
    THEN << [chan |-> "rooms"] >> ELSE << >>

RECURSIVE RoomNotesAll(_)
RoomNotesAll(S) ==
    IF S = {} THEN << >>
    ELSE LET r == CHOOSE x \in S : TRUE IN RoomNotes(r) \o RoomNotesAll(S \ {r})

\* the notifications of inbox that are not for channel kind chan
DropNotes(q, chan) == SelectSeq(q, LAMBDA n : n.chan # chan)

\* ------------------------------------------------------- the call records
\* fetchChatRooms() up to its await: nothing when there is no user, else the
\* query, with the filter the user's role gives it
FetchChatRoomsCall(u) ==
    IF u = Null THEN EmptyBag
    ELSE SetToBag({ [op |-> "fetchChatRooms", pc |-> "query", filter |-> RoomsFilter(u)] })

\* fetchMessages(chatRoomId) up to its await
FetchMessagesCall(chatRoomId) ==
    SetToBag({ [op |-> "fetchMessages", pc |-> "query", chatRoomId |-> chatRoomId] })

\* getOrCreateChatRoom() up to its first await: nothing unless the user is a
\* customer. prev is what the latest completed call returned (see lastGet).
GetOrCreateGuard(u) == u # Null /\ u.role = "customer"

GetOrCreateCall(u, prev) ==
    IF ~GetOrCreateGuard(u) THEN EmptyBag
    ELSE SetToBag({ [op |-> "getOrCreateChatRoom", pc |-> "lookup", user |-> u, prev |-> prev] })

\* ------------------------------------------------------------ the effects
\* the state the effects depend on
View ==
    [ user |-> user, chatRooms |-> chatRooms, selectedChat |-> selectedChat, loading |-> loading ]

\* the deps without the selected room: [user?.id]
MsgDepsChangedUserOnly(p, c) == UserId(p.user) # UserId(c.user)

\* deps [user?.id, selectedChat?.id] of the message subscription effect
MsgDepsChanged(p, c) ==
    UserId(p.user) # UserId(c.user) \/ ChatId(p.selectedChat) # ChatId(c.selectedChat)

\* the channel the message subscription effect creates
MsgSubscription(c) ==
    IF c.user = Null \/ ChatId(c.selectedChat) = NoChat THEN Null
    ELSE [ filter |-> c.selectedChat.id, user |-> c.user ]

\* deps [user?.id] of the room subscription effect
RoomDepsChanged(p, c) == UserId(p.user) # UserId(c.user)

\* the channel the room subscription effect creates
RoomSubscription(c) ==
    IF c.user = Null THEN Null
    ELSE [ filter |-> RoomsFilter(c.user), user |-> c.user ]

\* deps [user, chatRooms.length, loading, selectedChat] of the auto-create/select
\* effect; userNew and selNew say that user, selectedChat is a new object
AutoDepsChanged(p, c, userNew, selNew) ==
    \/ userNew
    \/ Len(p.chatRooms) # Len(c.chatRooms)
    \/ p.loading # c.loading
    \/ selNew

IsCustomer(u) == u # Null /\ u.role = "customer"

\* the first branch of the auto-create/select effect
AutoCreate(c) == IsCustomer(c.user) /\ Len(c.chatRooms) = 0 /\ ~c.loading

\* its second branch
AutoSelect(c) ==
    ~AutoCreate(c) /\ IsCustomer(c.user) /\ Len(c.chatRooms) = 1 /\ c.selectedChat = Null

\* deps [selectedChat?.id] of the load-messages effect
LoadDepsChanged(p, c) == ChatId(p.selectedChat) # ChatId(c.selectedChat)

\* One pass of the five effects after view p became view c: the calls they
\* issue, the selection the auto-select branch sets, the channels they leave.
\* mch, rch are the channels before the pass; prev is lastGet.
Effects(p, c, userNew, selNew, mch, rch, prev) ==
    [ calls |->
          (IF userNew /\ c.user # Null THEN FetchChatRoomsCall(c.user) ELSE EmptyBag)
          (+) (IF AutoDepsChanged(p, c, userNew, selNew) /\ AutoCreate(c)
               THEN GetOrCreateCall(c.user, prev) ELSE EmptyBag)
          (+) (IF LoadDepsChanged(p, c) /\ ChatId(c.selectedChat) # NoChat
               THEN FetchMessagesCall(c.selectedChat.id) ELSE EmptyBag),
      selectedChat |->
          IF AutoDepsChanged(p, c, userNew, selNew) /\ AutoSelect(c)
          THEN c.chatRooms[1] ELSE c.selectedChat,
      msgChannel  |-> IF MsgDepsChanged(p, c) THEN MsgSubscription(c) ELSE mch,
      roomChannel |-> IF RoomDepsChanged(p, c) THEN RoomSubscription(c) ELSE rch,
      msgResub    |-> MsgDepsChanged(p, c),
      roomResub   |-> RoomDepsChanged(p, c) ]

\* The effects after a render, run until no effect sets state: the auto-select
\* branch sets selectedChat, which renders again and re-runs the effects once.
Render(p, c, userNew, selNew, prev) ==
    LET e1 == Effects(p, c, userNew, selNew, msgChannel, roomChannel, prev)
        c2 == [c EXCEPT !.selectedChat = e1.selectedChat]
        e2 == Effects(c, c2, FALSE, TRUE, e1.msgChannel, e1.roomChannel, prev)
    IN  IF c2 = c THEN e1
        ELSE [ e2 EXCEPT !.calls = e1.calls (+) e2.calls,
                         !.msgResub = e1.msgResub \/ e2.msgResub,
                         !.roomResub = e1.roomResub \/ e2.roomResub ]

\* ------------------------------------------------------------ the state
\* what a read of the clock may give: the time of the latest read, or later
ClockReads == { now, now + 1 }

\* the rows of chat_rooms owned by customer id
RoomsOwnedBy(id) == { r \in rooms : r.customer_id = id }

\* the hook as mounted, before the identity provider has supplied a user; the
\* backend holds the room of another customer
Init ==
    /\ user = Null
    /\ chatRooms = << >>
    /\ selectedChat = Null
    /\ messages = << >>
    /\ loading = TRUE
    /\ rooms = { [id |-> 1, customer_id |-> "c2", agent_id |-> NoId,
                  status |-> "waiting", updated_at |-> 0] }
    /\ msgs = {}
    /\ now = 0
    /\ calls = EmptyBag
    /\ msgChannel = Null
    /\ roomChannel = Null
    /\ inbox = << >>
    /\ toasts = << >>
    /\ lastGet = Null
    /\ ev = [step |-> "mount"]

\* calls with call c replaced by the calls of bag b
Replace(c, b) == (calls (-) SetToBag({c})) (+) b

Pending(op, pc) == { c \in BagToSet(calls) : c.op = op /\ c.pc = pc }

\* The render that follows a change of the view to c, and its effects.
\* baseCalls and baseInbox are the calls and notifications the step leaves
\* before the effects run.
Commit(c, userNew, selNew, baseCalls, baseInbox) ==
    LET r == Render(View, c, userNew, selNew, lastGet)
        q1 == IF r.msgResub THEN DropNotes(baseInbox, "messages") ELSE baseInbox
        q2 == IF r.roomResub THEN DropNotes(q1, "rooms") ELSE q1
    IN  /\ user' = c.user
        /\ chatRooms' = c.chatRooms
        /\ loading' = c.loading
        /\ selectedChat' = r.selectedChat
        /\ calls' = baseCalls (+) r.calls
        /\ msgChannel' = r.msgChannel
        /\ roomChannel' = r.roomChannel
        /\ inbox' = q2

\* ------------------------------------------------- the identity provider
\* useAuth() supplies the user
SetUser(u) ==
    /\ user = Null
    /\ Commit([View EXCEPT !.user = u], TRUE, FALSE, calls, inbox)
    /\ toasts' = << >>
    /\ ev' = [step |-> "SetUser"]
    /\ UNCHANGED << messages, rooms, msgs, now, lastGet >>

\* useAuth() supplies a new object for the same user (a refreshed session)
AuthRefresh ==
    /\ user # Null
    /\ Commit(View, TRUE, FALSE, calls, inbox)
    /\ toasts' = << >>
    /\ ev' = [step |-> "AuthRefresh"]
    /\ UNCHANGED << messages, rooms, msgs, now, lastGet >>

\* useAuth() supplies no user any more (signed out)
SignOut ==
    /\ user # Null
    /\ Commit([View EXCEPT !.user = Null], TRUE, FALSE, calls, inbox)
    /\ toasts' = << >>
    /\ ev' = [step |-> "SignOut"]
    /\ UNCHANGED << messages, rooms, msgs, now, lastGet >>

\* ------------------------------------------------ the consumer of the hook
\* the component using the hook is unmounted: React runs the cleanup of the
\* two subscription effects, and nothing renders after that
Unmount ==
    /\ msgChannel' = Null
    /\ roomChannel' = Null
    /\ inbox' = DropNotes(DropNotes(inbox, "messages"), "rooms")
    /\ toasts' = << >>
    /\ ev' = [step |-> "unmount"]
    /\ UNCHANGED << user, chatRooms, selectedChat, messages, loading, rooms, msgs,
                    now, calls, lastGet >>

Mounted == ev.step # "unmount"

\* the exported fetchChatRooms, called by the consumer
FetchChatRooms ==
    /\ calls' = calls (+) FetchChatRoomsCall(user)
    /\ toasts' = << >>
    /\ ev' = [step |-> "fetchChatRooms"]
    /\ UNCHANGED << user, chatRooms, selectedChat, messages, loading, rooms, msgs,
                    now, msgChannel, roomChannel, inbox, lastGet >>

\* the exported setSelectedChat, called with a room of the list or with null
SetSelectedChat(room) ==
    /\ room # selectedChat
    /\ Commit([View EXCEPT !.selectedChat = room], FALSE, TRUE, calls, inbox)
    /\ toasts' = << >>
    /\ ev' = [step |-> "setSelectedChat"]
    /\ UNCHANGED << messages, rooms, msgs, now, lastGet >>

\* the guard testing the text before trimming it
SendMessageGuardUntrimmed(u, message) == u # Null /\ message # << >>

\* sendMessage up to its first await
SendMessageGuard(u, message) == u # Null /\ Trim(message) # << >>

SendMessageCall(u, chatRoomId, message) ==
    IF ~SendMessageGuard(u, message) THEN EmptyBag
    ELSE SetToBag({ [ op |-> "sendMessage", pc |-> "insert", chatRoomId |-> chatRoomId,
                      sender_id |-> u.id, message |-> Trim(message) ] })

SendMessage(chatRoomId, message) ==
    /\ calls' = calls (+) SendMessageCall(user, chatRoomId, message)
    /\ toasts' = << >>
    /\ ev' = [step |-> "sendMessage", message |-> message]
    /\ UNCHANGED << user, chatRooms, selectedChat, messages, loading, rooms, msgs,
                    now, msgChannel, roomChannel, inbox, lastGet >>

\* the guard with the role test lost
UpdateChatStatusGuardAnyRole(u) == u # Null

\* updateChatStatus up to its await
UpdateChatStatusGuard(u) == u # Null /\ u.role # "customer"

UpdateChatStatusCall(u, chatRoomId, status, agentId) ==
    IF ~UpdateChatStatusGuard(u) THEN EmptyBag
    ELSE SetToBag({ [ op |-> "updateChatStatus", pc |-> "update", chatRoomId |-> chatRoomId,
                      status |-> status, agentId |-> agentId ] })

UpdateChatStatus(chatRoomId, status, agentId) ==
    /\ calls' = calls (+) UpdateChatStatusCall(user, chatRoomId, status, agentId)
    /\ toasts' = << >>
    /\ ev' = [step |-> "updateChatStatus"]
    /\ UNCHANGED << user, chatRooms, selectedChat, messages, loading, rooms, msgs,
                    now, msgChannel, roomChannel, inbox, lastGet >>

\* ------------------------------------------ the backend executes a request
LocalUnchanged == UNCHANGED << user, chatRooms, selectedChat, messages, loading,
                               msgChannel, roomChannel >>

\* the response to the query of fetchChatRooms
RoomsResponses(c) ==
    { [ op |-> c.op, pc |-> "resp", filter |-> c.filter, error |-> TRUE, data |-> << >> ] }
    \cup { [ op |-> c.op, pc |-> "resp", filter |-> c.filter, error |-> FALSE, data |-> d ] :
           d \in SelectChatRooms(c.filter) }

BackendSelectRooms(c) ==
    /\ c \in Pending("fetchChatRooms", "query")
    /\ \E r \in RoomsResponses(c) :
          /\ calls' = Replace(c, SetToBag({r}))
          /\ ev' = [step |-> "backend"]
    /\ toasts' = << >>
    /\ LocalUnchanged
    /\ UNCHANGED << rooms, msgs, now, inbox, lastGet >>

\* the response to the query of fetchMessages
MessagesResponses(c) ==
    { [ op |-> c.op, pc |-> "resp", chatRoomId |-> c.chatRoomId, error |-> TRUE, data |-> << >> ] }
    \cup { [ op |-> c.op, pc |-> "resp", chatRoomId |-> c.chatRoomId, error |-> FALSE, data |-> d ] :
           d \in SelectMessages(c.chatRoomId) }

BackendSelectMessages(c) ==
    /\ c \in Pending("fetchMessages", "query")
    /\ \E r \in MessagesResponses(c) :
          /\ calls' = Replace(c, SetToBag({r}))
          /\ ev' = [step |-> "backend"]
    /\ toasts' = << >>
    /\ LocalUnchanged
    /\ UNCHANGED << rooms, msgs, now, inbox, lastGet >>

\* the response to the lookup of getOrCreateChatRoom: what maybeSingle() gives
\* for the customer's rows, or a failed request (data null)
LookupResponses(c) ==
    { [ op |-> c.op, pc |-> "lookupResp", user |-> c.user, prev |-> c.prev,
        existingRoom |-> d ] :
      d \in { MaybeSingle(RoomsOwnedBy(c.user.id)).data, Null } }

BackendLookupRoom(c) ==
    /\ c \in Pending("getOrCreateChatRoom", "lookup")
    /\ \E r \in LookupResponses(c) :
          /\ calls' = Replace(c, SetToBag({r}))
          /\ ev' = [step |-> "backend"]
    /\ toasts' = << >>
    /\ LocalUnchanged
    /\ UNCHANGED << rooms, msgs, now, inbox, lastGet >>

\* the insert of getOrCreateChatRoom
BackendInsertRoom(c) ==
    /\ c \in Pending("getOrCreateChatRoom", "insert")
    /\ \/ /\ Cardinality(rooms) < MaxRooms
          /\ \E t \in ClockReads :
             LET row == NewRoomRow(c.user.id, t)
                 r == [ op |-> c.op, pc |-> "insertResp", user |-> c.user, prev |-> c.prev,
                        newRoom |-> row, createError |-> FALSE ]
             IN  /\ now' = t
                 /\ rooms' = rooms \cup {row}
                 /\ inbox' = inbox \o RoomNotes(row)
                 /\ calls' = Replace(c, SetToBag({r}))
                 /\ ev' = [step |-> "backend"]
       \/ /\ LET r == [ op |-> c.op, pc |-> "insertResp", user |-> c.user, prev |-> c.prev,
                        newRoom |-> Null, createError |-> TRUE ]
             IN  /\ calls' = Replace(c, SetToBag({r}))
                 /\ ev' = [step |-> "backend"]
          /\ UNCHANGED << rooms, inbox, now >>
    /\ toasts' = << >>
    /\ LocalUnchanged
    /\ UNCHANGED << msgs, lastGet >>

\* the insert of sendMessage
BackendInsertMessage(c) ==
    /\ c \in Pending("sendMessage", "insert")
    /\ \/ /\ Cardinality(msgs) < MaxMsgs
          /\ \E t \in ClockReads :
             LET row == NewMessageRow(c.chatRoomId, c.sender_id, c.message, t)
                 r == [ op |-> c.op, pc |-> "insertResp", chatRoomId |-> c.chatRoomId,
                        error |-> FALSE ]
             IN  /\ now' = t
                 /\ msgs' = msgs \cup {row}
                 /\ inbox' = inbox \o MessageNotes(row)
                 /\ calls' = Replace(c, SetToBag({r}))
                 /\ ev' = [step |-> "backend"]
       \/ /\ LET r == [ op |-> c.op, pc |-> "insertResp", chatRoomId |-> c.chatRoomId,
                        error |-> TRUE ]
             IN  /\ calls' = Replace(c, SetToBag({r}))
                 /\ ev' = [step |-> "backend"]
          /\ UNCHANGED << msgs, inbox, now >>
    /\ toasts' = << >>
    /\ LocalUnchanged
    /\ UNCHANGED << rooms, lastGet >>

\* .update(fields).eq('id', chatRoomId) on chat_rooms
TouchRoom(r, c) == [r EXCEPT !.updated_at = c.updated_at]

SetStatus(r, c) ==
    IF c.agentId # NoId THEN [r EXCEPT !.status = c.status, !.agent_id = c.agentId]
    ELSE [r EXCEPT !.status = c.status]

\* the update of sendMessage: nothing follows its await, so the call ends here
BackendTouchRoom(c) ==
    /\ c \in Pending("sendMessage", "update")
    /\ \/ /\ rooms' = { IF r.id = c.chatRoomId THEN TouchRoom(r, c) ELSE r : r \in rooms }
          /\ inbox' = inbox \o RoomNotesAll({ r \in rooms : r.id = c.chatRoomId })
       \/ UNCHANGED << rooms, inbox >>
    /\ calls' = Replace(c, EmptyBag)
    /\ ev' = [step |-> "backend"]
    /\ toasts' = << >>
    /\ LocalUnchanged
    /\ UNCHANGED << msgs, now, lastGet >>

\* the update of updateChatStatus
BackendUpdateStatus(c) ==
    /\ c \in Pending("updateChatStatus", "update")
    /\ \/ /\ rooms' = { IF r.id = c.chatRoomId THEN SetStatus(r, c) ELSE r : r \in rooms }
          /\ inbox' = inbox \o RoomNotesAll({ r \in rooms : r.id = c.chatRoomId })
          /\ calls' = Replace(c, SetToBag({ [op |-> c.op, pc |-> "updateResp", error |-> FALSE] }))
       \/ /\ calls' = Replace(c, SetToBag({ [op |-> c.op, pc |-> "updateResp", error |-> TRUE] }))
          /\ UNCHANGED << rooms, inbox >>
    /\ ev' = [step |-> "backend"]
    /\ toasts' = << >>
    /\ LocalUnchanged
    /\ UNCHANGED << msgs, now, lastGet >>

\* --------------------------------------- the continuations after an await
\* setLoading(false) reached only when the query succeeded
LoadingAfterFetchNoFinally(error) == IF error THEN loading ELSE FALSE

\* the finally block of fetchChatRooms: setLoading(false), error or not
LoadingAfterFetch(error) == FALSE

\* the list emptied when the query failed
ChatRoomsAfterFetchCleared(c) == IF c.error THEN << >> ELSE transformedData(c.data)

\* if (error) { toast; return } ... setChatRooms(transformedData)
ChatRoomsAfterFetch(c) == IF c.error THEN chatRooms ELSE transformedData(c.data)

\* fetchChatRooms after its await: the error toast or setChatRooms, and
\* setLoading(false) in the finally block
FetchChatRoomsDone(c) ==
    /\ c \in Pending("fetchChatRooms", "resp")
    /\ Commit([View EXCEPT !.chatRooms = ChatRoomsAfterFetch(c),
                           !.loading = LoadingAfterFetch(c.error)],
              FALSE, FALSE, Replace(c, EmptyBag), inbox)
    /\ toasts' = IF c.error THEN << "Failed to load chat rooms" >> ELSE << >>
    /\ ev' = [step |-> "fetchChatRooms.done"]
    /\ UNCHANGED << messages, rooms, msgs, now, lastGet >>

\* setMessages(data || []) without the test of error
MessagesAfterFetchUnchecked(c) == c.data

\* if (!error) setMessages(data || [])
MessagesAfterFetch(c) == IF ~c.error THEN c.data ELSE messages

\* fetchMessages after its await
FetchMessagesDone(c) ==
    /\ c \in Pending("fetchMessages", "resp")
    /\ messages' = MessagesAfterFetch(c)
    /\ calls' = Replace(c, EmptyBag)
    /\ toasts' = << >>
    /\ ev' = [step |-> "fetchMessages.done", error |-> c.error]
    /\ UNCHANGED << user, chatRooms, selectedChat, loading, rooms, msgs, now,
                    msgChannel, roomChannel, inbox, lastGet >>

\* what a completed getOrCreateChatRoom() leaves for the next call to compare
\* with: the room it returned, and the rows of the table at that moment
Returned(room, u) ==
    [ ret |-> ChatId(room), total |-> Cardinality(rooms),
      owned |-> Cardinality(RoomsOwnedBy(u.id)) ]

\* getOrCreateChatRoom().then(room => { if (room) fetchChatRooms() }), with the
\* fetchChatRooms of the render that ran the effect
ThenRefresh(room, u) == IF room # Null THEN FetchChatRoomsCall(u) ELSE EmptyBag

\* getOrCreateChatRoom after its first await: return the room found, or issue
\* the insert
GetOrCreateLookupDone(c) ==
    /\ c \in Pending("getOrCreateChatRoom", "lookupResp")
    /\ IF c.existingRoom # Null
       THEN /\ calls' = Replace(c, ThenRefresh(c.existingRoom, c.user))
            /\ lastGet' = Returned(c.existingRoom, c.user)
            /\ ev' = [step |-> "getOrCreateChatRoom.return"]
       ELSE /\ calls' = Replace(c, SetToBag({ [ op |-> c.op, pc |-> "insert",
                                                 user |-> c.user, prev |-> c.prev ] }))
            /\ lastGet' = lastGet
            /\ ev' = [step |-> "getOrCreateChatRoom.insert"]
    /\ toasts' = << >>
    /\ UNCHANGED << user, chatRooms, selectedChat, messages, loading, rooms, msgs, now,
                    msgChannel, roomChannel, inbox >>

\* getOrCreateChatRoom after its second await: the error toast and null, or
\* the inserted room
GetOrCreateInsertDone(c) ==
    /\ c \in Pending("getOrCreateChatRoom", "insertResp")
    /\ LET ret == IF c.createError THEN Null ELSE c.newRoom
       IN  /\ calls' = Replace(c, ThenRefresh(ret, c.user))
           /\ lastGet' = Returned(ret, c.user)
           /\ ev' = [step |-> "getOrCreateChatRoom.return"]
    /\ toasts' = IF c.createError THEN << "Failed to create chat room" >> ELSE << >>
    /\ UNCHANGED << user, chatRooms, selectedChat, messages, loading, rooms, msgs, now,
                    msgChannel, roomChannel, inbox >>

\* the update skipped when the insert failed
TouchAfterInsertOnSuccess(c, t) ==
    IF c.error THEN EmptyBag
    ELSE SetToBag({ [ op |-> c.op, pc |-> "update",
                      chatRoomId |-> c.chatRoomId, updated_at |-> t ] })

\* the update of the room's updated_at that follows the insert of sendMessage,
\* whatever the insert answered
TouchAfterInsert(c, t) ==
    SetToBag({ [ op |-> c.op, pc |-> "update",
                 chatRoomId |-> c.chatRoomId, updated_at |-> t ] })

\* sendMessage after its first await: the error toast, then the update of the
\* room's updated_at with the client's clock
SendMessageInsertDone(c) ==
    /\ c \in Pending("sendMessage", "insertResp")
    /\ \E t \in ClockReads :
          /\ now' = t
          /\ calls' = Replace(c, TouchAfterInsert(c, t))
    /\ toasts' = IF c.error THEN << "Failed to send message" >> ELSE << >>
    /\ ev' = [step |-> "sendMessage.inserted"]
    /\ UNCHANGED << user, chatRooms, selectedChat, messages, loading, rooms, msgs,
                    msgChannel, roomChannel, inbox, lastGet >>

\* updateChatStatus after its await
UpdateChatStatusDone(c) ==
    /\ c \in Pending("updateChatStatus", "updateResp")
    /\ calls' = Replace(c, EmptyBag)
    /\ toasts' = IF c.error THEN << "Failed to update chat status" >> ELSE << >>
    /\ ev' = [step |-> "updateChatStatus.done"]
    /\ UNCHANGED << user, chatRooms, selectedChat, messages, loading, rooms, msgs, now,
                    msgChannel, roomChannel, inbox, lastGet >>

\* ------------------------------------------------ the realtime callbacks
\* the toast raised for every message, the user's own included
NewMessageToastAlways(newMessage, u) == << "New Message" >>

\* if (newMessage.sender_id !== user.id) toast(...)
NewMessageToast(newMessage, u) ==
    IF newMessage.sender_id # u.id THEN << "New Message" >> ELSE << >>

\* the callback of the message channel, for the oldest notification
OnMessageInsert ==
    /\ inbox # << >>
    /\ Head(inbox).chan = "messages"
    /\ LET newMessage == Head(inbox).new
       IN  /\ messages' = Append(messages, newMessage)
           /\ toasts' = NewMessageToast(newMessage, msgChannel.user)
           /\ ev' = [step |-> "onMessageInsert"]
    /\ calls' = calls (+) FetchChatRoomsCall(msgChannel.user)
    /\ inbox' = Tail(inbox)
    /\ UNCHANGED << user, chatRooms, selectedChat, loading, rooms, msgs, now,
                    msgChannel, roomChannel, lastGet >>

\* the callback of the room channel, for the oldest notification
OnRoomChange ==
    /\ inbox # << >>
    /\ Head(inbox).chan = "rooms"
    /\ calls' = calls (+) FetchChatRoomsCall(roomChannel.user)
    /\ inbox' = Tail(inbox)
    /\ toasts' = << >>
    /\ ev' = [step |-> "onRoomChange"]
    /\ UNCHANGED << user, chatRooms, selectedChat, messages, loading, rooms, msgs, now,
                    msgChannel, roomChannel, lastGet >>

\* ------------------------------------------------------- the environment
\* the other participants of the rooms
Peers == {"c2"}

\* another participant's client inserts a message into a room
PeerSendMessage(chatRoomId, peer) ==
    /\ Cardinality(msgs) < MaxMsgs
    /\ \E t \in ClockReads :
       LET row == NewMessageRow(chatRoomId, peer, << "a" >>, t)
       IN  /\ now' = t
           /\ msgs' = msgs \cup {row}
           /\ inbox' = inbox \o MessageNotes(row)
           /\ ev' = [step |-> "peer"]
    /\ toasts' = << >>
    /\ UNCHANGED << user, chatRooms, selectedChat, messages, loading, rooms,
                    calls, msgChannel, roomChannel, lastGet >>

\* ------------------------------------------------------ the specification
RoomIds == { r.id : r \in rooms }

\* the bounds of the model: at most k calls in flight, MaxInbox notifications
\* not yet delivered, the clock at t at the latest
Within(k, t) == BagCardinality(calls') <= k /\ Len(inbox') <= MaxInbox /\ now' <= t

\* the room the consumer sends to: the selected one, any when none is selected
SendTargets == IF selectedChat # Null THEN {selectedChat.id} ELSE RoomIds

Next ==
    \/ \E u \in Identities : SetUser(u) /\ Within(MaxCalls, MaxTime)
    \/ AuthRefresh /\ Within(MaxCalls, MaxTime)
    \/ FetchChatRooms /\ Within(MaxCalls, MaxTime)
    \/ \E room \in Range(chatRooms) \cup {Null} : SetSelectedChat(room) /\ Within(MaxCalls, MaxTime)
    \/ \E id \in SendTargets, m \in Texts : SendMessage(id, m) /\ Within(MaxCalls, MaxTime)
    \/ \E id \in RoomIds, st \in Statuses, a \in {NoId, "a1"} : UpdateChatStatus(id, st, a) /\ Within(MaxCalls, MaxTime)
    \/ \E c \in BagToSet(calls) : BackendSelectRooms(c) /\ Within(MaxCalls, MaxTime)
    \/ \E c \in BagToSet(calls) : BackendSelectMessages(c) /\ Within(MaxCalls, MaxTime)
    \/ \E c \in BagToSet(calls) : BackendLookupRoom(c) /\ Within(MaxCalls, MaxTime)
    \/ \E c \in BagToSet(calls) : BackendInsertRoom(c) /\ Within(MaxCalls, MaxTime)
    \/ \E c \in BagToSet(calls) : BackendInsertMessage(c) /\ Within(MaxCalls, MaxTime)
    \/ \E c \in BagToSet(calls) : BackendTouchRoom(c) /\ Within(MaxCalls, MaxTime)
    \/ \E c \in BagToSet(calls) : BackendUpdateStatus(c) /\ Within(MaxCalls, MaxTime)
    \/ \E c \in BagToSet(calls) : FetchChatRoomsDone(c) /\ Within(MaxCalls, MaxTime)
    \/ \E c \in BagToSet(calls) : FetchMessagesDone(c) /\ Within(MaxCalls, MaxTime)
    \/ \E c \in BagToSet(calls) : GetOrCreateLookupDone(c) /\ Within(MaxCalls, MaxTime)
    \/ \E c \in BagToSet(calls) : GetOrCreateInsertDone(c) /\ Within(MaxCalls, MaxTime)
    \/ \E c \in BagToSet(calls) : SendMessageInsertDone(c) /\ Within(MaxCalls, MaxTime)
    \/ \E c \in BagToSet(calls) : UpdateChatStatusDone(c) /\ Within(MaxCalls, MaxTime)
    \/ OnMessageInsert /\ Within(MaxCalls, MaxTime)
    \/ OnRoomChange /\ Within(MaxCalls, MaxTime)
    \/ \E id \in RoomIds, p \in Peers : PeerSendMessage(id, p) /\ Within(MaxCalls, MaxTime)

Spec == Init /\ [][Next]_vars


\* Loading: the identity provider supplies the user, the consumer refreshes
\* the list, before and after that.
NextLoad ==
    \/ \E u \in Identities : SetUser(u) /\ Within(MaxCalls, MaxTime)
    \/ FetchChatRooms /\ Within(MaxCalls, MaxTime)
    \/ \E c \in BagToSet(calls) : BackendSelectRooms(c) /\ Within(MaxCalls, MaxTime)
    \/ \E c \in BagToSet(calls) : BackendSelectMessages(c) /\ Within(MaxCalls, MaxTime)
    \/ \E c \in BagToSet(calls) : BackendLookupRoom(c) /\ Within(MaxCalls, MaxTime)
    \/ \E c \in BagToSet(calls) : BackendInsertRoom(c) /\ Within(MaxCalls, MaxTime)
    \/ \E c \in BagToSet(calls) : FetchChatRoomsDone(c) /\ Within(MaxCalls, MaxTime)
    \/ \E c \in BagToSet(calls) : FetchMessagesDone(c) /\ Within(MaxCalls, MaxTime)
    \/ \E c \in BagToSet(calls) : GetOrCreateLookupDone(c) /\ Within(MaxCalls, MaxTime)
    \/ \E c \in BagToSet(calls) : GetOrCreateInsertDone(c) /\ Within(MaxCalls, MaxTime)
    \/ OnRoomChange /\ Within(MaxCalls, MaxTime)

SpecLoad == Init /\ [][NextLoad]_vars

\* The rooms: loading the list and provisioning the customer's room, while
\* the session is refreshed and the consumer refreshes the list.
NextRooms ==
    \/ \E u \in Identities : SetUser(u) /\ Within(MaxCallsRooms, MaxTimeRooms)
    \/ AuthRefresh /\ Within(MaxCallsRooms, MaxTimeRooms)
    \/ FetchChatRooms /\ Within(MaxCallsRooms, MaxTimeRooms)
    \/ \E c \in BagToSet(calls) : BackendSelectRooms(c) /\ Within(MaxCallsRooms, MaxTimeRooms)
    \/ \E c \in BagToSet(calls) : BackendSelectMessages(c) /\ Within(MaxCallsRooms, MaxTimeRooms)
    \/ \E c \in BagToSet(calls) : BackendLookupRoom(c) /\ Within(MaxCallsRooms, MaxTimeRooms)
    \/ \E c \in BagToSet(calls) : BackendInsertRoom(c) /\ Within(MaxCallsRooms, MaxTimeRooms)
    \/ \E c \in BagToSet(calls) : FetchChatRoomsDone(c) /\ Within(MaxCallsRooms, MaxTimeRooms)
    \/ \E c \in BagToSet(calls) : FetchMessagesDone(c) /\ Within(MaxCallsRooms, MaxTimeRooms)
    \/ \E c \in BagToSet(calls) : GetOrCreateLookupDone(c) /\ Within(MaxCallsRooms, MaxTimeRooms)
    \/ \E c \in BagToSet(calls) : GetOrCreateInsertDone(c) /\ Within(MaxCallsRooms, MaxTimeRooms)
    \/ OnRoomChange /\ Within(MaxCallsRooms, MaxTimeRooms)

SpecRooms == Init /\ [][NextRooms]_vars

\* The status of a room: the consumer calls updateChatStatus, before and
\* after the identity provider has supplied the user.
NextStatus ==
    \/ \E u \in Identities : SetUser(u) /\ Within(MaxCalls, MaxTime)
    \/ \E id \in RoomIds, st \in Statuses, a \in {NoId, "a1"} : UpdateChatStatus(id, st, a) /\ Within(MaxCalls, MaxTime)
    \/ \E c \in BagToSet(calls) : BackendSelectRooms(c) /\ Within(MaxCalls, MaxTime)
    \/ \E c \in BagToSet(calls) : BackendSelectMessages(c) /\ Within(MaxCalls, MaxTime)
    \/ \E c \in BagToSet(calls) : BackendLookupRoom(c) /\ Within(MaxCalls, MaxTime)
    \/ \E c \in BagToSet(calls) : BackendInsertRoom(c) /\ Within(MaxCalls, MaxTime)
    \/ \E c \in BagToSet(calls) : BackendUpdateStatus(c) /\ Within(MaxCalls, MaxTime)
    \/ \E c \in BagToSet(calls) : FetchChatRoomsDone(c) /\ Within(MaxCalls, MaxTime)
    \/ \E c \in BagToSet(calls) : FetchMessagesDone(c) /\ Within(MaxCalls, MaxTime)
    \/ \E c \in BagToSet(calls) : GetOrCreateLookupDone(c) /\ Within(MaxCalls, MaxTime)
    \/ \E c \in BagToSet(calls) : GetOrCreateInsertDone(c) /\ Within(MaxCalls, MaxTime)
    \/ \E c \in BagToSet(calls) : UpdateChatStatusDone(c) /\ Within(MaxCalls, MaxTime)
    \/ OnRoomChange /\ Within(MaxCalls, MaxTime)

SpecStatus == Init /\ [][NextStatus]_vars

\* Sending: a customer calls sendMessage with every kind of text, before and
\* after the identity provider has supplied the user. Nobody else writes.
NextSend ==
    \/ \E u \in { x \in Identities : x.role = "customer" } : SetUser(u) /\ Within(MaxCalls, MaxTime)
    \/ \E id \in SendTargets, m \in Texts : SendMessage(id, m) /\ Within(MaxCalls, MaxTime)
    \/ \E c \in BagToSet(calls) : BackendSelectRooms(c) /\ Within(MaxCalls, MaxTime)
    \/ \E c \in BagToSet(calls) : BackendSelectMessages(c) /\ Within(MaxCalls, MaxTime)
    \/ \E c \in BagToSet(calls) : BackendLookupRoom(c) /\ Within(MaxCalls, MaxTime)
    \/ \E c \in BagToSet(calls) : BackendInsertRoom(c) /\ Within(MaxCalls, MaxTime)
    \/ \E c \in BagToSet(calls) : BackendInsertMessage(c) /\ Within(MaxCalls, MaxTime)
    \/ \E c \in BagToSet(calls) : BackendTouchRoom(c) /\ Within(MaxCalls, MaxTime)
    \/ \E c \in BagToSet(calls) : FetchChatRoomsDone(c) /\ Within(MaxCalls, MaxTime)
    \/ \E c \in BagToSet(calls) : FetchMessagesDone(c) /\ Within(MaxCalls, MaxTime)
    \/ \E c \in BagToSet(calls) : GetOrCreateLookupDone(c) /\ Within(MaxCalls, MaxTime)
    \/ \E c \in BagToSet(calls) : GetOrCreateInsertDone(c) /\ Within(MaxCalls, MaxTime)
    \/ \E c \in BagToSet(calls) : SendMessageInsertDone(c) /\ Within(MaxCalls, MaxTime)
    \/ OnMessageInsert /\ Within(MaxCalls, MaxTime)
    \/ OnRoomChange /\ Within(MaxCalls, MaxTime)

SpecSend == Init /\ [][NextSend]_vars

\* the texts that pass the guard of sendMessage as they are
PlainTexts == { t \in Texts : t # << >> /\ Trim(t) = t }

\* The messages of a customer's room: the customer and the other participant
\* send, the room is selected once the list holds it.
NextMsgs ==
    \/ \E u \in { x \in Identities : x.role = "customer" } : SetUser(u) /\ Within(MaxCalls, MaxTime)
    \/ \E id \in SendTargets, m \in PlainTexts : SendMessage(id, m) /\ Within(MaxCalls, MaxTime)
    \/ \E c \in BagToSet(calls) : BackendSelectRooms(c) /\ Within(MaxCalls, MaxTime)
    \/ \E c \in BagToSet(calls) : BackendSelectMessages(c) /\ Within(MaxCalls, MaxTime)
    \/ \E c \in BagToSet(calls) : BackendLookupRoom(c) /\ Within(MaxCalls, MaxTime)
    \/ \E c \in BagToSet(calls) : BackendInsertRoom(c) /\ Within(MaxCalls, MaxTime)
    \/ \E c \in BagToSet(calls) : BackendInsertMessage(c) /\ Within(MaxCalls, MaxTime)
    \/ \E c \in BagToSet(calls) : BackendTouchRoom(c) /\ Within(MaxCalls, MaxTime)
    \/ \E c \in BagToSet(calls) : FetchChatRoomsDone(c) /\ Within(MaxCalls, MaxTime)
    \/ \E c \in BagToSet(calls) : FetchMessagesDone(c) /\ Within(MaxCalls, MaxTime)
    \/ \E c \in BagToSet(calls) : GetOrCreateLookupDone(c) /\ Within(MaxCalls, MaxTime)
    \/ \E c \in BagToSet(calls) : GetOrCreateInsertDone(c) /\ Within(MaxCalls, MaxTime)
    \/ \E c \in BagToSet(calls) : SendMessageInsertDone(c) /\ Within(MaxCalls, MaxTime)
    \/ OnMessageInsert /\ Within(MaxCalls, MaxTime)
    \/ OnRoomChange /\ Within(MaxCalls, MaxTime)
    \/ \E id \in { r.id : r \in RoomsOwnedBy("c1") }, p \in Peers :
          PeerSendMessage(id, p) /\ Within(MaxCalls, MaxTime)

SpecMsgs == Init /\ [][NextMsgs]_vars

\* every response the backend gives in this step is that of a request that
\* succeeded (a lookup that matches several rows still answers with its error)
BackendSucceeds ==
    \A r \in BagToSet(calls') :
        CopiesIn(r, calls') > CopiesIn(r, calls) =>
            /\ r.pc \in {"resp", "updateResp"} => ~r.error
            /\ r.pc = "insertResp" /\ r.op = "getOrCreateChatRoom" => ~r.createError
            /\ r.pc = "lookupResp" => r.existingRoom = MaybeSingle(RoomsOwnedBy(r.user.id)).data

\* Provisioning: a customer's session with a backend that never fails, while
\* the identity provider refreshes the session.
NextProvision ==
    \/ \E u \in { x \in Identities : x.role = "customer" } :
          SetUser(u) /\ Within(MaxCallsRooms, MaxTimeRooms)
    \/ AuthRefresh /\ Within(MaxCallsRooms, MaxTimeRooms)
    \/ \E c \in BagToSet(calls) :
          BackendSelectRooms(c) /\ BackendSucceeds /\ Within(MaxCallsRooms, MaxTimeRooms)
    \/ \E c \in BagToSet(calls) :
          BackendSelectMessages(c) /\ BackendSucceeds /\ Within(MaxCallsRooms, MaxTimeRooms)
    \/ \E c \in BagToSet(calls) :
          BackendLookupRoom(c) /\ BackendSucceeds /\ Within(MaxCallsRooms, MaxTimeRooms)
    \/ \E c \in BagToSet(calls) :
          BackendInsertRoom(c) /\ BackendSucceeds /\ Within(MaxCallsRooms, MaxTimeRooms)
    \/ \E c \in BagToSet(calls) : FetchChatRoomsDone(c) /\ Within(MaxCallsRooms, MaxTimeRooms)
    \/ \E c \in BagToSet(calls) : FetchMessagesDone(c) /\ Within(MaxCallsRooms, MaxTimeRooms)
    \/ \E c \in BagToSet(calls) : GetOrCreateLookupDone(c) /\ Within(MaxCallsRooms, MaxTimeRooms)
    \/ \E c \in BagToSet(calls) : GetOrCreateInsertDone(c) /\ Within(MaxCallsRooms, MaxTimeRooms)
    \/ OnRoomChange /\ Within(MaxCallsRooms, MaxTimeRooms)

SpecProvision == Init /\ [][NextProvision]_vars

\* an agent's desk: the backend holds the rooms of two customers
InitDesk ==
    /\ user = Null
    /\ chatRooms = << >>
    /\ selectedChat = Null
    /\ messages = << >>
    /\ loading = TRUE
    /\ rooms = { [id |-> 1, customer_id |-> "c2", agent_id |-> NoId,
                  status |-> "waiting", updated_at |-> 0],
                 [id |-> 2, customer_id |-> "c3", agent_id |-> NoId,
                  status |-> "waiting", updated_at |-> 0] }
    /\ msgs = {}
    /\ now = 0
    /\ calls = EmptyBag
    /\ msgChannel = Null
    /\ roomChannel = Null
    /\ inbox = << >>
    /\ toasts = << >>
    /\ lastGet = Null
    /\ ev = [step |-> "mount"]

WithinDesk ==
    /\ BagCardinality(calls') <= MaxCalls
    /\ Len(inbox') <= MaxInboxDesk
    /\ now' <= MaxTime

\* The desk: an agent signs in, selects rooms of the list, the customers
\* write; the backend never fails.
NextDesk ==
    \/ \E u \in { x \in Identities : x.role # "customer" } : SetUser(u) /\ WithinDesk
    \/ \E room \in Range(chatRooms) \cup {Null} : SetSelectedChat(room) /\ WithinDesk
    \/ \E id \in RoomIds, p \in Peers : PeerSendMessage(id, p) /\ WithinDesk
    \/ \E c \in BagToSet(calls) : BackendSelectRooms(c) /\ BackendSucceeds /\ WithinDesk
    \/ \E c \in BagToSet(calls) : BackendSelectMessages(c) /\ BackendSucceeds /\ WithinDesk
    \/ \E c \in BagToSet(calls) : FetchChatRoomsDone(c) /\ WithinDesk
    \/ \E c \in BagToSet(calls) : FetchMessagesDone(c) /\ WithinDesk
    \/ OnMessageInsert /\ WithinDesk

SpecDesk == InitDesk /\ [][NextDesk]_vars

\* Assignment: an agent signs in and changes the status and the agent of the
\* rooms; the backend never fails.
NextAssign ==
    \/ \E u \in { x \in Identities : x.role # "customer" } :
          SetUser(u) /\ Within(MaxCalls, MaxTime)
    \/ \E id \in RoomIds, st \in Statuses, a \in {NoId, "a1"} :
          UpdateChatStatus(id, st, a) /\ Within(MaxCalls, MaxTime)
    \/ \E c \in BagToSet(calls) :
          BackendSelectRooms(c) /\ BackendSucceeds /\ Within(MaxCalls, MaxTime)
    \/ \E c \in BagToSet(calls) :
          BackendUpdateStatus(c) /\ BackendSucceeds /\ Within(MaxCalls, MaxTime)
    \/ \E c \in BagToSet(calls) : FetchChatRoomsDone(c) /\ Within(MaxCalls, MaxTime)
    \/ \E c \in BagToSet(calls) : UpdateChatStatusDone(c) /\ Within(MaxCalls, MaxTime)
    \/ OnRoomChange /\ Within(MaxCalls, MaxTime)

SpecAssign == Init /\ [][NextAssign]_vars

\* The subscriptions: the agent signs in and out, selects and deselects
\* rooms, the customers write, and the component is unmounted at any moment.
NextSubs ==
    \/ \E u \in { x \in Identities : x.role # "customer" } :
          Mounted /\ SetUser(u) /\ Within(MaxCalls, MaxTime)
    \/ Mounted /\ SignOut /\ Within(MaxCalls, MaxTime)
    \/ Mounted /\ Unmount /\ Within(MaxCalls, MaxTime)
    \/ \E room \in Range(chatRooms) \cup {Null} :
          Mounted /\ SetSelectedChat(room) /\ Within(MaxCalls, MaxTime)
    \/ \E id \in RoomIds, p \in Peers :
          Mounted /\ PeerSendMessage(id, p) /\ Within(MaxCalls, MaxTime)
    \/ \E c \in BagToSet(calls) :
          Mounted /\ BackendSelectRooms(c) /\ BackendSucceeds /\ Within(MaxCalls, MaxTime)
    \/ \E c \in BagToSet(calls) :
          Mounted /\ BackendSelectMessages(c) /\ BackendSucceeds /\ Within(MaxCalls, MaxTime)
    \/ \E c \in BagToSet(calls) : Mounted /\ FetchChatRoomsDone(c) /\ Within(MaxCalls, MaxTime)
    \/ \E c \in BagToSet(calls) : Mounted /\ FetchMessagesDone(c) /\ Within(MaxCalls, MaxTime)
    \/ Mounted /\ OnMessageInsert /\ Within(MaxCalls, MaxTime)

SpecSubs == InitDesk /\ [][NextSubs]_vars

\* With the backend answering every request and every response delivered.
SpecLoadFair ==
    /\ SpecLoad
    /\ WF_vars(\E c \in BagToSet(calls) : BackendSelectRooms(c))
    /\ WF_vars(\E c \in BagToSet(calls) : FetchChatRoomsDone(c))

\* ------------------------------------------------------------ the claims
\* call record c entered, left the calls in flight in this step
Added(c) == CopiesIn(c, calls') > CopiesIn(c, calls)

Removed(c) == CopiesIn(c, calls') < CopiesIn(c, calls)

Is(c, op, pc) == c.op = op /\ c.pc = pc

\* the rows of chat_rooms identity u is meant to see
VisibleTo(u) ==
    IF u.role = "customer" THEN { r \in rooms : r.customer_id = u.id } ELSE rooms

OwnRoomsOnly ==
    IsCustomer(user) => \A i \in 1..Len(chatRooms) : chatRooms[i].customer_id = user.id

\* C1: the response to a successful fetchChatRooms query holds exactly the
\* rooms the identity is meant to see (its own for a customer, all of them for
\* any other role), each once; the continuation replaces the local list by
\* that response; so a customer's local list never holds a foreign room.
C1_RoleScopedVisibility ==
    [][ /\ \A r \in BagToSet(calls') :
              Added(r) /\ Is(r, "fetchChatRooms", "resp") /\ ~r.error =>
                  /\ Range(r.data) = VisibleTo(user)
                  /\ Len(r.data) = Cardinality(VisibleTo(user))
        /\ \A c \in BagToSet(calls) :
              ev'.step = "fetchChatRooms.done" /\ Removed(c)
              /\ Is(c, "fetchChatRooms", "resp") /\ ~c.error =>
                  /\ Len(chatRooms') = Len(c.data)
                  /\ \A i \in 1..Len(c.data) :
                        /\ chatRooms'[i].id = c.data[i].id
                        /\ chatRooms'[i].customer_id = c.data[i].customer_id
                        /\ chatRooms'[i].status = c.data[i].status
                        /\ chatRooms'[i].agent_id = c.data[i].agent_id
        /\ OwnRoomsOnly' ]_vars

\* a customer's fetch has completed with its own room, while the table holds
\* another customer's room
C1_Witness ==
    /\ ev.step = "fetchChatRooms.done"
    /\ IsCustomer(user)
    /\ chatRooms # << >>
    /\ \E r \in rooms : r.customer_id # user.id

\* C3: a successful insert of getOrCreateChatRoom adds exactly one room, with
\* status waiting and the identity's id as customer_id, and that room is what
\* the call returns; without a customer identity the call issues nothing.
C3_CreatesWaitingRoom ==
    [][ /\ \A r \in BagToSet(calls') :
              Added(r) /\ Is(r, "getOrCreateChatRoom", "insertResp") /\ ~r.createError =>
                  /\ r.newRoom \notin rooms
                  /\ rooms' = rooms \cup {r.newRoom}
                  /\ r.newRoom.status = "waiting"
                  /\ r.newRoom.customer_id = user.id
        /\ \A c \in BagToSet(calls) :
              Removed(c) /\ Is(c, "getOrCreateChatRoom", "insertResp") /\ ~c.createError =>
                  /\ lastGet'.ret = c.newRoom.id
                  /\ rooms' = rooms
        /\ \A u \in Identities \cup {Null} :
              (u = Null \/ u.role # "customer") => GetOrCreateCall(u, lastGet) = EmptyBag ]_vars

\* the customer owned no room, and the call has returned the room it created
C3_Witness ==
    /\ ev.step = "getOrCreateChatRoom.return"
    /\ IsCustomer(user)
    /\ lastGet # Null
    /\ \E r \in rooms : r.id = lastGet.ret /\ r.customer_id = user.id /\ r.status = "waiting"
    /\ Cardinality(RoomsOwnedBy(user.id)) = 1

\* C7 as stated: every completion of a fetchChatRooms invocation takes the
\* loading flag from true to false.
C7_OncePerInvocation ==
    [][ ev'.step = "fetchChatRooms.done" => loading /\ ~loading' ]_vars

\* C7 as amended: a completion of the query, failed or not, leaves the flag
\* false; the flag changes only there, and only from true to false, so it
\* makes the transition once in the life of the controller.
C7_OncePerController ==
    [][ /\ ev'.step = "fetchChatRooms.done" => ~loading'
        /\ loading' # loading => loading /\ ~loading' /\ ev'.step = "fetchChatRooms.done" ]_vars

\* a failed query has completed and the flag is false
C7_Witness ==
    /\ ev.step = "fetchChatRooms.done"
    /\ toasts = << "Failed to load chat rooms" >>
    /\ ~loading

FetchInFlight == \E c \in BagToSet(calls) : c.op = "fetchChatRooms"

\* C8 as stated, in the form a finite run refutes: once the consumer's
\* invocation is over, whatever its outcome, the flag is false.
C8_TerminatesWhateverOutcome ==
    ev.step = "fetchChatRooms" /\ ~FetchInFlight => ~loading

\* C8 as amended: an invocation that issued its query leads to the flag being
\* false, and once false the flag stays false.
C8_LoadingTerminates ==
    /\ FetchInFlight ~> ~loading
    /\ [][ ~loading => ~loading' ]_vars

\* a successful query has completed and the flag is false
C8_Witness ==
    /\ ev.step = "fetchChatRooms.done"
    /\ toasts = << >>
    /\ chatRooms # << >>
    /\ ~loading

\* the table held prev.total rows when the earlier call returned; it holds
\* as many now, the row this call inserted aside: nobody else has inserted
NoInsertElsewhere(c) ==
    Cardinality(rooms) - (IF c.pc = "insertResp" /\ ~c.createError THEN 1 ELSE 0) = c.prev.total

\* C2: a getOrCreateChatRoom call that started after an earlier call had
\* returned a room, with no insert from elsewhere since, returns the room with
\* the same id, and leaves the customer with no more rooms than the earlier
\* call left.
C2_SameRoomTwice ==
    [][ \A c \in BagToSet(calls) :
            /\ ev'.step = "getOrCreateChatRoom.return"
            /\ Removed(c)
            /\ c.op = "getOrCreateChatRoom"
            /\ c.prev # Null
            /\ c.prev.ret # NoChat
            /\ NoInsertElsewhere(c)
            => /\ lastGet'.ret = c.prev.ret
               /\ lastGet'.owned <= c.prev.owned ]_vars

\* C10: no customer owns more than one row of chat_rooms.
C10_AtMostOneRoomPerCustomer ==
    \A u \in Identities : Cardinality(RoomsOwnedBy(u.id)) <= 1

\* s holds nothing but white space
Blank(s) == \A i \in 1..Len(s) : s[i] = " "

\* t is s without the white space at its two ends
IsTrimOf(t, s) ==
    /\ t # << >> => t[1] # " " /\ t[Len(t)] # " "
    /\ \E i \in 0..Len(s) :
          /\ i + Len(t) <= Len(s)
          /\ SubSeq(s, i + 1, i + Len(t)) = t
          /\ Blank(SubSeq(s, 1, i))
          /\ Blank(SubSeq(s, i + Len(t) + 1, Len(s)))

\* C4: sendMessage without an identity, or with a text that is empty or all
\* white space, issues nothing: no row is inserted, no room is touched, no
\* alert is raised. When it issues the insert, the body is the trimmed text
\* and the sender is the identity, and the backend stores that row.
C4_SendGuard ==
    [][ /\ ev'.step = "sendMessage" /\ (user = Null \/ Blank(ev'.message)) =>
              calls' = calls /\ msgs' = msgs /\ rooms' = rooms /\ toasts' = << >>
        /\ \A c \in BagToSet(calls') :
              ev'.step = "sendMessage" /\ Added(c) =>
                  /\ Is(c, "sendMessage", "insert")
                  /\ IsTrimOf(c.message, ev'.message)
                  /\ c.sender_id = user.id
        /\ \A c \in BagToSet(calls) :
              Removed(c) /\ Is(c, "sendMessage", "insert") =>
                  \A m \in msgs' \ msgs :
                      m.message = c.message /\ m.sender_id = c.sender_id
                      /\ m.chat_room_id = c.chatRoomId ]_vars

\* an identity is present and sendMessage was given a text of white space
C4_Witness ==
    /\ ev.step = "sendMessage"
    /\ user # Null
    /\ ev.message = << " " >>

\* C5: updateChatStatus called by a customer, or with no identity, issues
\* nothing and raises no alert; as long as the identity is absent or a
\* customer, no update of a room is in flight and no room has left the
\* status and the assignment it was created with.
C5_CustomerCannotUpdate ==
    [][ /\ ev'.step = "updateChatStatus" /\ (user = Null \/ user.role = "customer") =>
              calls' = calls /\ rooms' = rooms /\ toasts' = << >>
        /\ (user' = Null \/ user'.role = "customer") =>
              /\ \A c \in BagToSet(calls') : c.op # "updateChatStatus"
              /\ \A r \in rooms' : r.status = "waiting" /\ r.agent_id = NoId ]_vars

\* a customer has called updateChatStatus, and there is a room to update
C5_Witness ==
    /\ ev.step = "updateChatStatus"
    /\ IsCustomer(user)
    /\ RoomsOwnedBy(user.id) # {}

\* C6: the callback of the message channel appends the message of the
\* notification, which is for the selected room, at the end of the local
\* list, and raises one New Message alert when the sender is not the
\* identity, none when it is.
C6_NotificationAppends ==
    [][ ev'.step = "onMessageInsert" =>
          LET m == Head(inbox).new
          IN  /\ m.chat_room_id = ChatId(selectedChat)
              /\ messages' = Append(messages, m)
              /\ toasts' = IF m.sender_id # user.id THEN << "New Message" >> ELSE << >> ]_vars

\* a message of another sender has been delivered and announced
C6_Witness ==
    /\ ev.step = "onMessageInsert"
    /\ messages # << >>
    /\ messages[Len(messages)].sender_id # user.id
    /\ toasts = << "New Message" >>

NonDecreasing(s) == \A i, j \in 1..Len(s) : i < j => s[i].created_at <= s[j].created_at

\* C9: the response to a successful fetchMessages query holds exactly the
\* messages of the room asked for, each once, in non-decreasing created_at
\* order, and the continuation replaces the local list by that response.
C9_MessagesInOrder ==
    [][ /\ \A r \in BagToSet(calls') :
              Added(r) /\ Is(r, "fetchMessages", "resp") /\ ~r.error =>
                  /\ Range(r.data) = { m \in msgs : m.chat_room_id = r.chatRoomId }
                  /\ Len(r.data) = Cardinality(Range(r.data))
                  /\ NonDecreasing(r.data)
        /\ \A c \in BagToSet(calls) :
              ev'.step = "fetchMessages.done" /\ Removed(c)
              /\ Is(c, "fetchMessages", "resp") /\ ~c.error =>
                  messages' = c.data /\ NonDecreasing(messages') ]_vars

\* a fetch has completed with two messages created at different times
C9_Witness ==
    /\ ev.step = "fetchMessages.done"
    /\ Len(messages) = 2
    /\ messages[1].created_at < messages[2].created_at
    /\ Range(messages) = msgs

\* C11: no step adds a row of chat_rooms for a customer that already owns one:
\* the insert of getOrCreateChatRoom is issued, and executed, only for a
\* customer without a room, however often the effect is re-evaluated and
\* whatever the lookup or a fetch answered.
C11_InsertOnlyWithoutRoom ==
    [][ /\ \A r \in rooms' \ rooms : RoomsOwnedBy(r.customer_id) = {}
        /\ \A c \in BagToSet(calls') :
              Added(c) /\ Is(c, "getOrCreateChatRoom", "insert") =>
                  RoomsOwnedBy(c.user.id) = {} ]_vars

\* C12: a sendMessage call that passes its guard issues the insert and
\* nothing else; the update of the room's updated_at is issued only by the
\* continuation of the insert, for the same room, and by every such
\* continuation, failed insert or not; a failed insert raises the one alert
\* Failed to send message, a successful one none, and the continuation
\* leaves both tables as they are.
C12_InsertThenTouch ==
    [][ /\ ev'.step = "sendMessage" /\ user # Null /\ ~Blank(ev'.message) =>
              /\ \E c \in BagToSet(calls') : Added(c) /\ Is(c, "sendMessage", "insert")
              /\ BagCardinality(calls') = BagCardinality(calls) + 1
        /\ \A u \in BagToSet(calls') :
              Added(u) /\ Is(u, "sendMessage", "update") =>
                  /\ ev'.step = "sendMessage.inserted"
                  /\ \E c \in BagToSet(calls) :
                        /\ Removed(c) /\ Is(c, "sendMessage", "insertResp")
                        /\ c.chatRoomId = u.chatRoomId
        /\ \A r \in BagToSet(calls') :
              Added(r) /\ Is(r, "sendMessage", "insertResp") =>
                  \E c \in BagToSet(calls) :
                      Removed(c) /\ Is(c, "sendMessage", "insert") /\ c.chatRoomId = r.chatRoomId
        /\ \A c \in BagToSet(calls) :
              Removed(c) /\ Is(c, "sendMessage", "insertResp") =>
                  /\ \E u \in BagToSet(calls') :
                        /\ Added(u) /\ Is(u, "sendMessage", "update")
                        /\ u.chatRoomId = c.chatRoomId
                  /\ toasts' = IF c.error THEN << "Failed to send message" >> ELSE << >>
                  /\ msgs' = msgs /\ rooms' = rooms ]_vars

\* the insert has failed, the alert is raised and the update is in flight
C12_Witness ==
    /\ ev.step = "sendMessage.inserted"
    /\ toasts = << "Failed to send message" >>
    /\ msgs = {}
    /\ \E u \in BagToSet(calls) : Is(u, "sendMessage", "update")

\* C13: the continuation of a failed fetchChatRooms query raises the one
\* alert Failed to load chat rooms and leaves the local room list, the
\* selected room and the message list as they were; the continuation of a
\* successful query raises none.
C13_FailedFetchKeepsState ==
    [][ \A c \in BagToSet(calls) :
            ev'.step = "fetchChatRooms.done" /\ Removed(c) /\ Is(c, "fetchChatRooms", "resp") =>
                IF c.error
                THEN /\ toasts' = << "Failed to load chat rooms" >>
                     /\ chatRooms' = chatRooms
                     /\ selectedChat' = selectedChat
                     /\ messages' = messages
                ELSE toasts' = << >> ]_vars

\* a refresh has failed while a room is listed and selected and a message shown
C13_Witness ==
    /\ ev.step = "fetchChatRooms.done"
    /\ toasts = << "Failed to load chat rooms" >>
    /\ chatRooms # << >>
    /\ selectedChat # Null
    /\ messages # << >>

\* C14: the continuation of a failed fetchMessages query leaves the message
\* list as it was, raises no alert, changes no other local state and issues
\* no call.
C14_FailedFetchMessagesSilent ==
    [][ \A c \in BagToSet(calls) :
            /\ ev'.step = "fetchMessages.done" /\ Removed(c)
            /\ Is(c, "fetchMessages", "resp") /\ c.error
            => /\ messages' = messages
               /\ toasts' = << >>
               /\ calls' = calls (-) SetToBag({c})
               /\ UNCHANGED << user, chatRooms, selectedChat, loading,
                               msgChannel, roomChannel, inbox >> ]_vars

\* the query has failed while the list showed a message
C14_Witness ==
    /\ ev = [step |-> "fetchMessages.done", error |-> TRUE]
    /\ messages # << >>

\* nothing is in flight: no call, no notification
Settled == calls = EmptyBag /\ inbox = << >>

\* C17, in the form a finite run refutes: once a customer's controller has
\* come to rest, with a backend that never failed, a room of the customer
\* exists in the store, the local list holds it, and it is the selected room.
C17_SettledWithRoomSelected ==
    IsCustomer(user) /\ Settled =>
        /\ selectedChat # Null
        /\ \E r \in RoomsOwnedBy(user.id) : r.id = selectedChat.id
        /\ \E i \in 1..Len(chatRooms) : chatRooms[i].id = selectedChat.id

\* the fields of a room the list shows
Shown(r) == [ id |-> r.id, customer_id |-> r.customer_id,
              status |-> r.status, agent_id |-> r.agent_id ]

\* C20: when the controller has come to rest after successful fetches only,
\* the local room list holds exactly the rooms the identity is meant to see,
\* with their status and agent.
C20_ListConvergesToStore ==
    user # Null /\ Settled =>
        { Shown(chatRooms[i]) : i \in 1..Len(chatRooms) } = { Shown(r) : r \in VisibleTo(user) }

\* a live message subscription is that of the identity, filtered on the
\* selected room
MsgSubscriptionCurrent ==
    msgChannel # Null =>
        /\ user # Null /\ msgChannel.user.id = user.id
        /\ selectedChat # Null /\ msgChannel.filter = selectedChat.id

\* no subscription is left once the identity, the selection or the component
\* is gone
NoSubscriptionLeft ==
    /\ user = Null \/ selectedChat = Null \/ ~Mounted => msgChannel = Null
    /\ user = Null \/ ~Mounted => roomChannel = Null

\* every notification waiting for delivery is for a live subscription
OnlyLiveNotifications ==
    \A i \in 1..Len(inbox) :
        IF inbox[i].chan = "messages"
        THEN msgChannel # Null /\ inbox[i].new.chat_room_id = msgChannel.filter
        ELSE roomChannel # Null

\* the message the callback appends is one of the selected room
AppendsSelectedRoomOnly ==
    ev'.step = "onMessageInsert" =>
        /\ selectedChat # Null
        /\ Head(inbox).new.chat_room_id = selectedChat.id
        /\ messages' = Append(messages, Head(inbox).new)

C16_LocalListOrdered == NonDecreasing(messages)

\* C18: when a room is selected and no fetchMessages call is in flight, every
\* message of the local list is one of the selected room.
C18_OnlySelectedRoomMessages ==
    /\ selectedChat # Null
    /\ \A c \in BagToSet(calls) : c.op # "fetchMessages"
    => \A i \in 1..Len(messages) : messages[i].chat_room_id = selectedChat.id

\* C19: the local list never holds a message twice, and once a fetch of the
\* selected room's messages has succeeded and no fetch and no notification
\* is left to process, it holds every message the store has for that room.
C19_NoDuplicateNoLoss ==
    /\ \A i, j \in 1..Len(messages) : i < j => messages[i].id # messages[j].id
    /\ ( /\ ev = [step |-> "fetchMessages.done", error |-> FALSE]
         /\ selectedChat # Null
         /\ \A c \in BagToSet(calls) : c.op # "fetchMessages"
         /\ \A i \in 1..Len(inbox) : inbox[i].chan # "messages" )
       => MessagesOf(selectedChat.id) \subseteq Range(messages)

====
